---- MODULE Spec2Model ----
(***************************************************************************)
(* Model of td/telegram/NotificationManager.cpp: the per-group pending     *)
(* scheduler, the flush engine with its visibility window, and the stream  *)
(* of updateNotificationGroup objects sent to the client.                  *)
(*                                                                         *)
(* Times are integers in milliseconds (the source uses double seconds);    *)
(* dates are integers in seconds, as in the source.                        *)
(***************************************************************************)
EXTENDS Integers, Sequences, FiniteSets, TLC

(***************************************************************************)
(* Bounds of the model.                                                    *)
(***************************************************************************)
\* SpecLive: every timer that is set fires
MaxLiveGroupId == 2
MaxLiveNotificationId == 3
\* SpecDate: dates of any sign
MaxDateGroupId == 2
MaxDateNotificationId == 3
\* SpecDelay: the delay policy over dates, clocks and online statuses
MaxDelayNotificationId == 1
MaxDelayTick == 3
\* SpecEdit: edits of shown, hidden and pending notifications
MaxEditNotificationId == 2
MaxEditNotifications == 3
MaxEditGroupSize == 1
MaxEditClock == 2
\* SpecSession: bot and non-bot sessions, the remove path, the id allocators
MaxSessionGroupId == 1
MaxSessionNotificationId == 2
MaxSessionNotificationGroupId == 2
\* SpecSplit: runs of pending notifications with common settings
MaxSplitNotificationId == 4
MaxSplitGroupSize == 2
\* Spec: the window / diff protocol over several groups
MaxGroupId == 3
MaxNotificationId == 3
MaxDate == 2
MaxGroupCount == 2
MaxGroupSize == 2
\* SpecTimer: the pending scheduler
MaxTimerGroupId == 2
MaxTimerNotificationId == 3
MaxTimerTick == 3
\* SpecTrim: long runs in one group
MaxTrimNotificationId == 18
MaxTrimPending == 3
MaxTrimGroupSize == 1

(***************************************************************************)
(* Program constants and option values.                                    *)
(***************************************************************************)
EXTRA_GROUP_SIZE == 10
MIN_NOTIFICATION_DELAY_MS == 1
\* values of the shared-config options read by the on_*_changed handlers
online_cloud_timeout_ms_ == 1000
notification_cloud_delay_ms_ == 2000
notification_default_delay_ms_ == 1500
\* one step of the cached clocks, in milliseconds
TickMs == 1000

Min(a, b) == IF a < b THEN a ELSE b
Max(a, b) == IF a > b THEN a ELSE b

VARIABLES
    groups_,                          \* std::map<NotificationGroupKey, NotificationGroup>
    current_notification_id_,         \* the notification id counter
    current_notification_group_id_,   \* the notification group id counter
    binlog_pmc,                       \* G()->td_db()->get_binlog_pmc(): the two durable entries, as strings
    is_bot,                           \* td_->auth_manager_->is_bot()
    max_notification_group_count_,
    max_notification_group_size_,
    keep_notification_group_size_,
    timeouts,                         \* flush_pending_notifications_timeout_: group id -> absolute time (0: none)
    now,                              \* Time::now_cached(), G()->server_time_cached()
    close_flag,                       \* G()->close_flag()
    check_failed,                     \* the process has aborted: a failed CHECK or a null dereference
    updates,                          \* the updates the last handler sent to Td::send_update, in order
    ui,                               \* the notification ids the client holds per group, after those updates
    last_op                           \* the handler that ran last, with the locals of a flush

vars == <<groups_, current_notification_id_, current_notification_group_id_, binlog_pmc, is_bot,
          max_notification_group_count_, max_notification_group_size_,
          keep_notification_group_size_, timeouts, now, close_flag, check_failed, updates, ui,
          last_op>>

(***************************************************************************)
(* Identifiers, dialogs, notification types.                               *)
(***************************************************************************)
\* every group belongs to its own dialog
DialogOf(group_id) == 10 + group_id

\* DialogId::get_type() == DialogType::SecretChat: dialog 12 is a secret chat
IsSecretChat(dialog_id) == dialog_id = 12

\* a NotificationType is known by its two capabilities
NotificationType(delayed, object) == [can_be_delayed |-> delayed, has_object |-> object]

\* a unique_ptr<NotificationType> that holds nothing: nullptr, or a pointer that
\* has been moved from
NullType == [can_be_delayed |-> FALSE, has_object |-> FALSE, null |-> TRUE]

\* get_notification_object(dialog_id, notification)->type_ != nullptr
Renders(type) == type.has_object

\* NotificationId::is_valid(), NotificationGroupId::is_valid(), DialogId::is_valid()
IsValid(id) == id > 0

\* NotificationGroupKey(): the empty key
EmptyKey == [group_id |-> 0, dialog_id |-> 0, last_notification_date |-> 0]

\* NotificationGroup(): a new group
EmptyGroup == [notifications |-> <<>>, total_count |-> 0, pending_notifications |-> <<>>,
               pending_notifications_flush_time |-> 0]

\* NotificationGroupKey::operator<: newest date first, then the larger group id
KeyLess(a, b) ==
    IF a.last_notification_date # b.last_notification_date
    THEN a.last_notification_date > b.last_notification_date
    ELSE a.group_id > b.group_id

\* the iteration order of the std::map
RECURSIVE SortedKeys(_)
SortedKeys(keys) ==
    IF keys = {} THEN <<>>
    ELSE LET first == CHOOSE k \in keys : \A o \in keys \ {k} : KeyLess(k, o)
         IN <<first>> \o SortedKeys(keys \ {first})

HasGroup(store, group_id) == \E k \in DOMAIN store : k.group_id = group_id

\* get_group: the key of the first entry with that group id
get_group(store, group_id) ==
    LET order == SortedKeys(DOMAIN store)
        i == CHOOSE j \in 1 .. Len(order) :
                 /\ order[j].group_id = group_id
                 /\ \A h \in 1 .. (j - 1) : order[h].group_id # group_id
    IN order[i]

\* groups_.erase(it)
Erase(store, key) == [k \in (DOMAIN store) \ {key} |-> store[k]]

\* groups_.emplace(key, group): no effect if the key is present
Emplace(store, key, group) ==
    IF key \in DOMAIN store THEN store
    ELSE [k \in (DOMAIN store) \cup {key} |-> IF k = key THEN group ELSE store[k]]

\* mutant: the modulus is taken after the increment
get_next_notification_id_wraps_to_zero(current) == (current + 1) % 2147483647

\* get_next_notification_id (non-bot session)
get_next_notification_id(current) == (current % 2147483647) + 1

\* get_next_notification_group_id (non-bot session)
get_next_notification_group_id(current) == (current % 2147483647) + 1

\* to_string(int32) of a value >= 0: its decimal digits, most significant first
RECURSIVE to_string(_)
to_string(value) ==
    IF value < 10 THEN <<value>> ELSE Append(to_string(value \div 10), value % 10)

\* to_integer<int32>(string) of a string of digits: the empty string gives 0
RECURSIVE to_integer(_)
to_integer(str) ==
    IF str = <<>> THEN 0
    ELSE to_integer(SubSeq(str, 1, Len(str) - 1)) * 10 + str[Len(str)]

\* the names of the durable entries
NotificationIdEntry == "notification_id_current"
NotificationGroupIdEntry == "notification_group_id_current"

RECURSIVE WalkLeft(_, _, _)
WalkLeft(order, i, left) ==
    IF i <= Len(order) /\ left > 1 THEN WalkLeft(order, i + 1, left - 1) ELSE i

get_last_updated_group_key_one_too_far(store) ==
    LET order == SortedKeys(DOMAIN store)
        i == WalkLeft(order, 1, max_notification_group_count_ + 1)
    IN IF i > Len(order) THEN EmptyKey ELSE order[i]

get_last_updated_group_key(store) ==
    LET order == SortedKeys(DOMAIN store)
        i == WalkLeft(order, 1, max_notification_group_count_)
    IN IF i > Len(order) THEN EmptyKey ELSE order[i]

(***************************************************************************)
(* Delay policy.                                                           *)
(***************************************************************************)
\* ContactsManager::get_my_online_status(): was_online_* are in seconds
OnlineInfo(local, remote, was_local, was_remote) ==
    [is_online_local |-> local, is_online_remote |-> remote,
     was_online_local |-> was_local, was_online_remote |-> was_remote]

\* the lambda of get_notification_delay_ms; server_time is in milliseconds
BaseDelayMs(dialog_id, type, online_info, server_time) ==
    IF IsSecretChat(dialog_id) THEN 0
    ELSE IF ~type.can_be_delayed THEN 0
    ELSE IF ~online_info.is_online_local /\ online_info.is_online_remote
         THEN notification_cloud_delay_ms_
    ELSE IF /\ ~online_info.is_online_local
            /\ online_info.was_online_remote * 1000 >
                   Max(online_info.was_online_local * 1000, server_time - online_cloud_timeout_ms_)
         THEN notification_cloud_delay_ms_
    ELSE IF online_info.is_online_remote THEN notification_default_delay_ms_
    ELSE 0

\* line 144: max(0, static_cast<int32>((server_time - date - 1) * 1000)). The
\* conversion of a double above the range of int32 is undefined: it gives the
\* smallest int32 where the processor reports an invalid conversion that way
\* (then passed_time_ms is 0), the largest where it saturates. With the dates
\* and clocks TLC can hold, the product is never below the range.
PassedTimeMs(date, server_time) ==
    IF date * 1000 < (server_time - 1000) - 2147483647
    THEN {0, 2147483647}
    ELSE {Max(0, (server_time - 1000) - date * 1000)}

\* the values get_notification_delay_ms may return: one, unless the conversion
\* of line 144 is undefined
get_notification_delay_ms(dialog_id, date, type, online_info, server_time) ==
    LET delay_ms == BaseDelayMs(dialog_id, type, online_info, server_time)
    IN {Max(delay_ms - passed_time_ms, MIN_NOTIFICATION_DELAY_MS) :
            passed_time_ms \in PassedTimeMs(date, server_time)}

(***************************************************************************)
(* The client: which notification ids it holds after a run of updates.     *)
(***************************************************************************)
Range(seq) == {seq[i] : i \in 1 .. Len(seq)}

ApplyUpdate(held, update) ==
    [held EXCEPT ![update.group_id] =
        (@ \ Range(update.removed_notification_ids)) \cup Range(update.added_notifications)]

RECURSIVE ApplyUpdates(_, _)
ApplyUpdates(held, sent) ==
    IF sent = <<>> THEN held
    ELSE ApplyUpdates(ApplyUpdate(held, Head(sent)), Tail(sent))

\* td_api::updateNotificationGroup; sender names the function that sent it
UpdateNotificationGroup(sender, group_id, dialog_id, settings_dialog_id, is_silent, total_count, added, removed) ==
    [sender |-> sender, group_id |-> group_id, dialog_id |-> dialog_id,
     settings_dialog_id |-> settings_dialog_id, is_silent |-> is_silent,
     total_count |-> total_count, added_notifications |-> added,
     removed_notification_ids |-> removed]

(***************************************************************************)
(* Pending scheduler.                                                      *)
(***************************************************************************)
\* mutant: the test for a group without flush time is missing
NeedReschedule_only_earlier(pending_notifications_flush_time, flush_time) ==
    flush_time < pending_notifications_flush_time

\* mutant: the latest flush time wins
NeedReschedule_latest(pending_notifications_flush_time, flush_time) ==
    pending_notifications_flush_time = 0 \/ flush_time > pending_notifications_flush_time

\* add_notification, line 185: whether the new flush time replaces the scheduled one
NeedReschedule(pending_notifications_flush_time, flush_time) ==
    pending_notifications_flush_time = 0 \/ flush_time < pending_notifications_flush_time

\* lines 164-189: the store and the timeouts after add_notification has queued
\* the notification with the given delay. flush_at is not a field of
\* PendingNotification: it records the flush time computed for the item.
QueueNotification(group_id, dialog_id, date, settings_dialog_id, is_silent, notification_id, type, delay_ms) ==
    LET group_key == [group_id |-> group_id, dialog_id |-> dialog_id, last_notification_date |-> 0]
        store == IF HasGroup(groups_, group_id) THEN groups_
                 ELSE Emplace(groups_, group_key, EmptyGroup)
        key == get_group(store, group_id)
        group == store[key]
        flush_time == delay_ms + now
        notification == [date |-> date, settings_dialog_id |-> settings_dialog_id,
                         is_silent |-> is_silent, notification_id |-> notification_id,
                         type |-> type, flush_at |-> flush_time]
        resched == NeedReschedule(group.pending_notifications_flush_time, flush_time)
    IN [groups |-> [store EXCEPT ![key] =
                       [group EXCEPT
                           !.pending_notifications_flush_time = IF resched THEN flush_time ELSE @,
                           !.pending_notifications = Append(@, notification)]],
        timeouts |-> IF resched THEN [timeouts EXCEPT ![group_id] = flush_time] ELSE timeouts]

\* add_notification. The id counter and its durable entry are not touched: they
\* change when the caller takes notification_id from get_next_notification_id.
add_notification(group_id, dialog_id, date, settings_dialog_id, is_silent, notification_id, type, online_info) ==
    /\ ~check_failed
    /\ updates' = <<>>
    /\ IF is_bot
       THEN /\ last_op' = [name |-> "add_notification", group_id |-> group_id]
            /\ UNCHANGED <<groups_, timeouts, check_failed>>
       ELSE IF ~(/\ IsValid(group_id) /\ IsValid(dialog_id) /\ IsValid(settings_dialog_id)
                 /\ IsValid(notification_id) /\ type # NullType)
       THEN /\ check_failed' = TRUE
            /\ last_op' = [name |-> "check_failed", group_id |-> group_id]
            /\ UNCHANGED <<groups_, timeouts>>
       ELSE \E delay_ms \in get_notification_delay_ms(dialog_id, date, type, online_info, now) :
                LET queued == QueueNotification(group_id, dialog_id, date, settings_dialog_id,
                                  is_silent, notification_id, type, delay_ms)
                IN /\ groups_' = queued.groups
                   /\ timeouts' = queued.timeouts
                   /\ last_op' = [name |-> "add_notification", group_id |-> group_id,
                                  online_info |-> online_info, delay_ms |-> delay_ms]
                   /\ UNCHANGED check_failed
    /\ UNCHANGED <<current_notification_group_id_, is_bot, max_notification_group_count_,
                   max_notification_group_size_, keep_notification_group_size_, now, close_flag, ui>>

\* get_next_notification_id as the caller of add_notification runs it: the value
\* returned, and the change of the counter and of its durable entry
ReturnedNotificationId ==
    IF is_bot THEN 0 ELSE get_next_notification_id(current_notification_id_)

TakeNotificationId ==
    IF is_bot THEN UNCHANGED <<current_notification_id_, binlog_pmc>>
    ELSE /\ current_notification_id_' = get_next_notification_id(current_notification_id_)
         /\ binlog_pmc' = [binlog_pmc EXCEPT
                ![NotificationIdEntry] = to_string(get_next_notification_id(current_notification_id_))]

(***************************************************************************)
(* Flush engine.                                                           *)
(***************************************************************************)
Notification(pending_notification) ==
    [notification_id |-> pending_notification.notification_id, type |-> pending_notification.type]

NotificationIds(notifications) ==
    [i \in 1 .. Len(notifications) |-> notifications[i].notification_id]

\* lines 233-241: the pending notifications that render, as pushed to group.notifications
RenderedNotifications(pending_notifications) ==
    LET rendered == SelectSeq(pending_notifications, LAMBDA p : Renders(p.type))
    IN [i \in 1 .. Len(rendered) |-> Notification(rendered[i])]

\* lines 242-246: at most max_notification_group_size_ newest objects are sent
CapAdded(added_notifications) ==
    IF Len(added_notifications) > max_notification_group_size_
    THEN SubSeq(added_notifications,
                Len(added_notifications) - max_notification_group_size_ + 1,
                Len(added_notifications))
    ELSE added_notifications

\* mutant: one id too few is withdrawn
RemovedNotificationIds_one_too_few(notifications, old_notification_count, shown_notification_count, added_count) ==
    IF shown_notification_count + added_count > max_notification_group_size_ + 1
    THEN [i \in 1 .. (shown_notification_count + added_count - max_notification_group_size_ - 1) |->
             notifications[old_notification_count - shown_notification_count + i].notification_id]
    ELSE <<>>

\* lines 248-257: the ids withdrawn to make room for added_count new ones
RemovedNotificationIds(notifications, old_notification_count, shown_notification_count, added_count) ==
    IF shown_notification_count + added_count > max_notification_group_size_
    THEN [i \in 1 .. (shown_notification_count + added_count - max_notification_group_size_) |->
             notifications[old_notification_count - shown_notification_count + i].notification_id]
    ELSE <<>>

\* mutant: total_count counts what was pushed, before the cut
AdvanceTotalCount_pushed(total_count, pushed, added_notifications) ==
    total_count + Len(pushed)

\* line 259: group.total_count += added_notifications.size()
AdvanceTotalCount(total_count, pushed, added_notifications) ==
    total_count + Len(added_notifications)

\* flush_pending_notifications(group_key, group, pending_notifications): one run of
\* pending notifications with common settings; the group and the updates it sends
FlushBatch(group_key, group, pending_notifications) ==
    IF pending_notifications = <<>> THEN [group |-> group, updates |-> <<>>]
    ELSE
    LET old_notification_count == Len(group.notifications)
        shown_notification_count == Min(old_notification_count, max_notification_group_size_)
        pushed == RenderedNotifications(pending_notifications)
        notifications == group.notifications \o pushed
        added_notifications == CapAdded(NotificationIds(pushed))
        removed_notification_ids ==
            RemovedNotificationIds(notifications, old_notification_count,
                                   shown_notification_count, Len(added_notifications))
        total_count == AdvanceTotalCount(group.total_count, pushed, added_notifications)
    IN [group |-> [group EXCEPT !.notifications = notifications, !.total_count = total_count],
        updates |->
            IF added_notifications # <<>>
            THEN <<UpdateNotificationGroup("flush_pending_notifications", group_key.group_id,
                       group_key.dialog_id, pending_notifications[1].settings_dialog_id,
                       pending_notifications[1].is_silent, total_count, added_notifications,
                       removed_notification_ids)>>
            ELSE <<>>]

\* mutant: a change of is_silent alone does not end a run
RECURSIVE SplitBySettings_ignores_silent(_, _, _, _, _, _, _)
SplitBySettings_ignores_silent(group_key, group, pending_notifications, i, settings, grouped_notifications, sent) ==
    IF i > Len(pending_notifications)
    THEN LET r == FlushBatch(group_key, group, grouped_notifications)
         IN [group |-> r.group, updates |-> sent \o r.updates]
    ELSE LET p == pending_notifications[i]
         IN IF settings.settings_dialog_id # p.settings_dialog_id
            THEN LET r == FlushBatch(group_key, group, grouped_notifications)
                 IN SplitBySettings_ignores_silent(group_key, r.group, pending_notifications, i + 1,
                        [settings_dialog_id |-> p.settings_dialog_id, is_silent |-> p.is_silent],
                        <<p>>, sent \o r.updates)
            ELSE SplitBySettings_ignores_silent(group_key, group, pending_notifications, i + 1,
                                 settings, Append(grouped_notifications, p), sent)

\* lines 350-364: split the pending notifications into runs with common settings
RECURSIVE SplitBySettings(_, _, _, _, _, _, _)
SplitBySettings(group_key, group, pending_notifications, i, settings, grouped_notifications, sent) ==
    IF i > Len(pending_notifications)
    THEN LET r == FlushBatch(group_key, group, grouped_notifications)
         IN [group |-> r.group, updates |-> sent \o r.updates]
    ELSE LET p == pending_notifications[i]
         IN IF settings.settings_dialog_id # p.settings_dialog_id \/ settings.is_silent # p.is_silent
            THEN LET r == FlushBatch(group_key, group, grouped_notifications)
                 IN SplitBySettings(group_key, r.group, pending_notifications, i + 1,
                        [settings_dialog_id |-> p.settings_dialog_id, is_silent |-> p.is_silent],
                        <<p>>, sent \o r.updates)
            ELSE SplitBySettings(group_key, group, pending_notifications, i + 1, settings,
                                 Append(grouped_notifications, p), sent)

\* the last Min(size, max_notification_group_size_) notifications of a group
LastShown(notifications) ==
    SubSeq(notifications,
           Len(notifications) - Min(Len(notifications), max_notification_group_size_) + 1,
           Len(notifications))

\* send_remove_group_update(group_id): the updates it sends
send_remove_group_update(store, group_id) ==
    LET key == get_group(store, group_id)
        removed_notification_ids == NotificationIds(LastShown(store[key].notifications))
    IN IF removed_notification_ids # <<>>
       THEN <<UpdateNotificationGroup("send_remove_group_update", group_id, key.dialog_id,
                  key.dialog_id, TRUE, 0, <<>>, removed_notification_ids)>>
       ELSE <<>>

\* send_add_group_update(group_key, group): the updates it sends
send_add_group_update(group_key, group) ==
    LET added_notifications ==
            NotificationIds(SelectSeq(LastShown(group.notifications), LAMBDA n : Renders(n.type)))
    IN IF added_notifications # <<>>
       THEN <<UpdateNotificationGroup("send_add_group_update", group_key.group_id,
                  group_key.dialog_id, 0, TRUE, 0, added_notifications, <<>>)>>
       ELSE <<>>

\* mutant: the date of the last pending notification is taken
FinalGroupKey_last(group_key, pending_notifications) ==
    IF pending_notifications = <<>> THEN group_key
    ELSE [group_key EXCEPT !.last_notification_date =
             pending_notifications[Len(pending_notifications)].date]

\* lines 319-324: the key under which the group is inserted again
RECURSIVE FinalGroupKey(_, _)
FinalGroupKey(group_key, pending_notifications) ==
    IF pending_notifications = <<>> THEN group_key
    ELSE FinalGroupKey(
             IF Head(pending_notifications).date >= group_key.last_notification_date
             THEN [group_key EXCEPT !.last_notification_date = Head(pending_notifications).date]
             ELSE group_key,
             Tail(pending_notifications))

\* lines 338-340: a flush that sends nothing keeps every pending notification
AppendPending(group) ==
    [group EXCEPT !.notifications =
        @ \o [i \in 1 .. Len(group.pending_notifications) |-> Notification(group.pending_notifications[i])]]

\* mutant: the oldest notifications are kept
TrimNotifications_oldest(notifications) ==
    IF Len(notifications) > keep_notification_group_size_ + EXTRA_GROUP_SIZE
    THEN SubSeq(notifications, 1, keep_notification_group_size_)
    ELSE notifications

\* lines 369-375: keep only the keep_notification_group_size_ last notifications
TrimNotifications(notifications) ==
    IF Len(notifications) > keep_notification_group_size_ + EXTRA_GROUP_SIZE
    THEN SubSeq(notifications, Len(notifications) - keep_notification_group_size_ + 1,
                Len(notifications))
    ELSE notifications

\* mutant: the flush time survives the flush
ClearPending_keeps_flush_time(group) ==
    [group EXCEPT !.pending_notifications = <<>>]

\* lines 367-368: nothing is pending after a flush
ClearPending(group) ==
    [group EXCEPT !.pending_notifications_flush_time = 0, !.pending_notifications = <<>>]

\* lines 331-332
WasUpdated(group_key, last_group_key) ==
    group_key.last_notification_date # 0 /\ KeyLess(group_key, last_group_key)

IsUpdated(final_group_key, last_group_key) == KeyLess(final_group_key, last_group_key)

\* mutant: the group is added before the last one is removed
SeedUpdates_add_first(store, group_key, group, last_group_key) ==
    send_add_group_update(group_key, group) \o
    (IF last_group_key.last_notification_date # 0
     THEN send_remove_group_update(store, last_group_key.group_id)
     ELSE <<>>)

\* lines 342-348: the updates sent when the group enters the window
SeedUpdates(store, group_key, group, last_group_key) ==
    (IF last_group_key.last_notification_date # 0
     THEN send_remove_group_update(store, last_group_key.group_id)
     ELSE <<>>) \o send_add_group_update(group_key, group)

\* get_notification_object (line 195) calls through notification.type: whether
\* the flush of this group does so through a pointer that holds nothing, in the
\* sub-batches (line 235) or in send_add_group_update (line 297)
NullDereference(group, was_updated, is_updated) ==
    /\ is_updated
    /\ \/ \E i \in 1 .. Len(group.pending_notifications) :
              group.pending_notifications[i].type = NullType
       \/ /\ ~was_updated
          /\ \E n \in Range(LastShown(group.notifications)) : n.type = NullType

\* flush_pending_notifications(group_id) for a group of the store: the new store,
\* the updates sent, and whether a CHECK failed
FlushGroup(groups, group_id) ==
    LET group_key == get_group(groups, group_id)
        group == groups[group_key]
        store == Erase(groups, group_key)
        final_group_key == FinalGroupKey(group_key, group.pending_notifications)
        last_group_key == get_last_updated_group_key(store)
        was_updated == WasUpdated(group_key, last_group_key)
        is_updated == IsUpdated(final_group_key, last_group_key)
        seed == IF was_updated THEN <<>> ELSE SeedUpdates(store, group_key, group, last_group_key)
        flushed == IF is_updated
                   THEN SplitBySettings(group_key, group, group.pending_notifications, 1,
                            [settings_dialog_id |-> 0, is_silent |-> FALSE], <<>>, seed)
                   ELSE [group |-> AppendPending(group), updates |-> <<>>]
        new_group == [ClearPending(flushed.group) EXCEPT !.notifications = TrimNotifications(@)]
    IN [failed |-> \/ group.pending_notifications = <<>>
                   \/ final_group_key.last_notification_date = 0
                   \/ (~is_updated /\ was_updated),
        null_dereference |-> NullDereference(group, was_updated, is_updated),
        groups |-> Emplace(store, final_group_key, new_group),
        updates |-> flushed.updates,
        group_key |-> group_key,
        final_group_key |-> final_group_key,
        pending_dates |-> [i \in 1 .. Len(group.pending_notifications) |->
                              group.pending_notifications[i].date],
        was_updated |-> was_updated,
        is_updated |-> is_updated,
        last_group_id |-> last_group_key.group_id,
        last_group_date |-> last_group_key.last_notification_date]

\* on_flush_pending_notifications_timeout_callback: the timeout of group_id fires
\* when the clock shows fire_time
on_flush_pending_notifications_timeout_callback(group_id, fire_time) ==
    /\ ~check_failed
    /\ timeouts[group_id] # 0
    /\ fire_time >= timeouts[group_id]
    /\ fire_time >= now
    /\ now' = fire_time
    /\ timeouts' = [timeouts EXCEPT ![group_id] = 0]
    /\ IF close_flag
       THEN /\ updates' = <<>>
            /\ last_op' = [name |-> "closed", group_id |-> group_id]
            /\ UNCHANGED <<groups_, check_failed, ui>>
       ELSE IF ~HasGroup(groups_, group_id)
       THEN /\ check_failed' = TRUE
            /\ updates' = <<>>
            /\ last_op' = [name |-> "check_failed", group_id |-> group_id]
            /\ UNCHANGED <<groups_, ui>>
       ELSE LET r == FlushGroup(groups_, group_id)
            IN IF r.failed
               THEN /\ check_failed' = TRUE
                    /\ updates' = <<>>
                    /\ last_op' = [name |-> "check_failed", group_id |-> group_id]
                    /\ UNCHANGED <<groups_, ui>>
               ELSE IF r.null_dereference
               THEN /\ check_failed' = TRUE
                    /\ updates' = <<>>
                    /\ last_op' = [name |-> "null_dereference", group_id |-> group_id]
                    /\ UNCHANGED <<groups_, ui>>
               ELSE /\ groups_' = r.groups
                    /\ updates' = r.updates
                    /\ ui' = ApplyUpdates(ui, r.updates)
                    /\ last_op' = [name |-> "flush", group_id |-> group_id,
                                   group_key |-> r.group_key,
                                   final_group_key |-> r.final_group_key,
                                   pending_dates |-> r.pending_dates,
                                   was_updated |-> r.was_updated, is_updated |-> r.is_updated,
                                   last_group_id |-> r.last_group_id,
                                   last_group_date |-> r.last_group_date]
                    /\ UNCHANGED check_failed
    /\ UNCHANGED <<current_notification_id_, current_notification_group_id_, binlog_pmc, is_bot,
                   max_notification_group_count_, max_notification_group_size_,
                   keep_notification_group_size_, close_flag>>

(***************************************************************************)
(* Edit path, remove path, id allocators.                                  *)
(***************************************************************************)
\* td_api::updateNotification, as sent by send_update_notification
UpdateNotification(group_id, notification) ==
    [sender |-> "send_update_notification", group_id |-> group_id,
     notification_id |-> notification.notification_id, type |-> notification.type]

\* mutant: the test of line 396 counts one more notification as shown
RECURSIVE EditNotifications_shown_one_more(_, _, _, _)
EditNotifications_shown_one_more(notifications, i, notification_id, type) ==
    IF i > Len(notifications)
    THEN [notifications |-> notifications, type |-> type, at |-> 0]
    ELSE IF notifications[i].notification_id = notification_id
    THEN LET edited == [notifications EXCEPT ![i].type = type]
         IN IF i + max_notification_group_size_ >= Len(notifications)
            THEN [notifications |-> edited, type |-> NullType, at |-> i]
            ELSE EditNotifications_shown_one_more(edited, i + 1, notification_id, NullType)
    ELSE EditNotifications_shown_one_more(notifications, i + 1, notification_id, type)

\* lines 392-401: the scan of group.notifications from index i. type is what the
\* argument holds when the scan is there: NullType once it has been moved from.
\* at is the index of the match that ended the scan, 0 if none did.
RECURSIVE EditNotifications(_, _, _, _)
EditNotifications(notifications, i, notification_id, type) ==
    IF i > Len(notifications)
    THEN [notifications |-> notifications, type |-> type, at |-> 0]
    ELSE IF notifications[i].notification_id = notification_id
    THEN LET edited == [notifications EXCEPT ![i].type = type]
         IN IF (i - 1) + max_notification_group_size_ >= Len(notifications)
            THEN [notifications |-> edited, type |-> NullType, at |-> i]
            ELSE EditNotifications(edited, i + 1, notification_id, NullType)
    ELSE EditNotifications(notifications, i + 1, notification_id, type)

\* lines 402-406: the scan of group.pending_notifications from index i
RECURSIVE EditPending(_, _, _, _)
EditPending(pending_notifications, i, notification_id, type) ==
    IF i > Len(pending_notifications) THEN pending_notifications
    ELSE IF pending_notifications[i].notification_id = notification_id
    THEN EditPending([pending_notifications EXCEPT ![i].type = type], i + 1, notification_id, NullType)
    ELSE EditPending(pending_notifications, i + 1, notification_id, type)

\* lines 390-407 for a group of the store: the group after the edit, the updates
\* sent, and whether send_update_notification was handed a notification whose
\* type holds nothing (line 206 then calls through it)
EditGroup(group, group_key, notification_id, type) ==
    LET scan == EditNotifications(group.notifications, 1, notification_id, type)
        shown == scan.at # 0
    IN [group |-> [group EXCEPT
                      !.notifications = scan.notifications,
                      !.pending_notifications =
                          IF shown THEN @ ELSE EditPending(@, 1, notification_id, scan.type)],
        at |-> scan.at,
        null_dereference |-> shown /\ scan.notifications[scan.at].type = NullType,
        updates |-> IF shown /\ Renders(scan.notifications[scan.at].type)
                    THEN <<UpdateNotification(group_key.group_id, scan.notifications[scan.at])>>
                    ELSE <<>>]

\* what last_op records of a call of edit_notification; outcome tells how it ended
EditCall(group_id, notification_id, type, outcome, at) ==
    [name |-> "edit_notification", group_id |-> group_id, notification_id |-> notification_id,
     type |-> type, outcome |-> outcome, at |-> at]

\* edit_notification. For a group id that is not in the store, line 391 reads
\* through groups_.end(): the process aborts or goes on with nothing changed.
edit_notification(group_id, notification_id, type) ==
    /\ ~check_failed
    /\ IF is_bot
       THEN /\ updates' = <<>>
            /\ last_op' = EditCall(group_id, notification_id, type, "disabled", 0)
            /\ UNCHANGED <<groups_, check_failed>>
       ELSE IF ~(IsValid(notification_id) /\ type # NullType)
       THEN /\ check_failed' = TRUE
            /\ updates' = <<>>
            /\ last_op' = EditCall(group_id, notification_id, type, "check_failed", 0)
            /\ UNCHANGED groups_
       ELSE IF ~HasGroup(groups_, group_id)
       THEN /\ check_failed' \in BOOLEAN
            /\ updates' = <<>>
            /\ last_op' = EditCall(group_id, notification_id, type, "unknown_group", 0)
            /\ UNCHANGED groups_
       ELSE LET group_key == get_group(groups_, group_id)
                r == EditGroup(groups_[group_key], group_key, notification_id, type)
            IN IF r.null_dereference
               THEN /\ check_failed' = TRUE
                    /\ updates' = <<>>
                    /\ last_op' = EditCall(group_id, notification_id, type, "null_dereference", r.at)
                    /\ UNCHANGED groups_
               ELSE /\ groups_' = [groups_ EXCEPT ![group_key] = r.group]
                    /\ updates' = r.updates
                    /\ last_op' = EditCall(group_id, notification_id, type, "done", r.at)
                    /\ UNCHANGED check_failed
    /\ UNCHANGED <<current_notification_id_, current_notification_group_id_, binlog_pmc, is_bot,
                   max_notification_group_count_, max_notification_group_size_,
                   keep_notification_group_size_, timeouts, now, close_flag, ui>>

\* Promise<Unit>::set_error(Status::Error(code, ...)) and set_value(Unit())
SetError(code) == [is_error |-> TRUE, code |-> code]
SetValue == [is_error |-> FALSE, code |-> 0]

\* mutant: the session is looked at before the arguments
RemoveNotificationPromise_bot_first(group_id, notification_id) ==
    IF is_bot THEN <<SetValue>>
    ELSE IF ~IsValid(notification_id) THEN <<SetError(400)>>
    ELSE <<SetValue>>

\* remove_notification: what the promise is resolved with, in order
RemoveNotificationPromise(group_id, notification_id) ==
    IF ~IsValid(notification_id) THEN <<SetError(400)>>
    ELSE IF is_bot THEN <<SetValue>>
    ELSE <<SetValue>>

\* remove_notification_group: what the promise is resolved with, in order
RemoveNotificationGroupPromise(group_id, max_notification_id) ==
    IF ~IsValid(group_id) THEN <<SetError(400)>>
    ELSE IF ~IsValid(max_notification_id) THEN <<SetError(400)>>
    ELSE IF is_bot THEN <<SetValue>>
    ELSE <<SetValue>>

\* remove_notification: the removal itself is a TODO of the source
remove_notification(group_id, notification_id) ==
    /\ ~check_failed
    /\ updates' = <<>>
    /\ last_op' = [name |-> "remove_notification", group_id |-> group_id,
                   notification_id |-> notification_id,
                   promise |-> RemoveNotificationPromise(group_id, notification_id)]
    /\ UNCHANGED <<groups_, current_notification_id_, current_notification_group_id_, binlog_pmc,
                   is_bot, max_notification_group_count_, max_notification_group_size_,
                   keep_notification_group_size_, timeouts, now, close_flag, check_failed, ui>>

\* remove_notification_group: the removal itself is a TODO of the source
remove_notification_group(group_id, max_notification_id) ==
    /\ ~check_failed
    /\ updates' = <<>>
    /\ last_op' = [name |-> "remove_notification_group", group_id |-> group_id,
                   notification_id |-> max_notification_id,
                   promise |-> RemoveNotificationGroupPromise(group_id, max_notification_id)]
    /\ UNCHANGED <<groups_, current_notification_id_, current_notification_group_id_, binlog_pmc,
                   is_bot, max_notification_group_count_, max_notification_group_size_,
                   keep_notification_group_size_, timeouts, now, close_flag, check_failed, ui>>

\* a call of get_next_notification_id on its own
GetNextNotificationId ==
    /\ ~check_failed
    /\ TakeNotificationId
    /\ updates' = <<>>
    /\ last_op' = [name |-> "get_next_notification_id", group_id |-> 0,
                   returned |-> ReturnedNotificationId]
    /\ UNCHANGED <<groups_, current_notification_group_id_, is_bot, max_notification_group_count_,
                   max_notification_group_size_, keep_notification_group_size_, timeouts, now,
                   close_flag, check_failed, ui>>

\* a call of get_next_notification_group_id
GetNextNotificationGroupId ==
    /\ ~check_failed
    /\ IF is_bot
       THEN /\ last_op' = [name |-> "get_next_notification_group_id", group_id |-> 0,
                           returned |-> 0]
            /\ UNCHANGED <<current_notification_group_id_, binlog_pmc>>
       ELSE /\ current_notification_group_id_' =
                   get_next_notification_group_id(current_notification_group_id_)
            /\ binlog_pmc' = [binlog_pmc EXCEPT ![NotificationGroupIdEntry] =
                   to_string(get_next_notification_group_id(current_notification_group_id_))]
            /\ last_op' = [name |-> "get_next_notification_group_id", group_id |-> 0,
                           returned |-> get_next_notification_group_id(current_notification_group_id_)]
    /\ updates' = <<>>
    /\ UNCHANGED <<groups_, current_notification_id_, is_bot, max_notification_group_count_,
                   max_notification_group_size_, keep_notification_group_size_, timeouts, now,
                   close_flag, check_failed, ui>>

\* the process ends and a new one runs the constructor and start_up (lines
\* 43-61): the members start anew, the durable entries are read again
Restart ==
    /\ groups_' = [k \in {} |-> EmptyGroup]
    /\ current_notification_id_' =
           IF is_bot THEN 0 ELSE to_integer(binlog_pmc[NotificationIdEntry])
    /\ current_notification_group_id_' =
           IF is_bot THEN 0 ELSE to_integer(binlog_pmc[NotificationGroupIdEntry])
    /\ timeouts' = [g \in DOMAIN timeouts |-> 0]
    /\ close_flag' = FALSE
    /\ check_failed' = FALSE
    /\ updates' = <<>>
    /\ ui' = [g \in DOMAIN ui |-> {}]
    /\ last_op' = [name |-> "start_up", group_id |-> 0]
    /\ UNCHANGED <<binlog_pmc, is_bot, max_notification_group_count_,
                   max_notification_group_size_, keep_notification_group_size_, now>>

(***************************************************************************)
(* Configuration, clocks, shutdown.                                        *)
(***************************************************************************)
\* on_notification_group_size_max_changed, lines 492-493
KeepSize(max_size) == max_size + Max(EXTRA_GROUP_SIZE \div 2, Min(max_size, EXTRA_GROUP_SIZE))

\* the state after the constructor and start_up (lines 43-61) of a session that
\* finds the durable entries recorded, with the two options as read from the
\* shared config and no timeout set for any of group_ids. In a bot session
\* start_up returns at once and the members keep the values of construction.
StartUp(group_ids, bot, recorded, group_count_max, group_size_max) ==
    /\ groups_ = [k \in {} |-> EmptyGroup]
    /\ is_bot = bot
    /\ binlog_pmc = recorded
    /\ current_notification_id_ = IF bot THEN 0 ELSE to_integer(recorded[NotificationIdEntry])
    /\ current_notification_group_id_ =
           IF bot THEN 0 ELSE to_integer(recorded[NotificationGroupIdEntry])
    /\ max_notification_group_count_ = IF bot THEN 0 ELSE group_count_max
    /\ max_notification_group_size_ = IF bot THEN 0 ELSE group_size_max
    /\ keep_notification_group_size_ = IF bot THEN 0 ELSE KeepSize(group_size_max)
    /\ timeouts = [g \in group_ids |-> 0]
    /\ now = TickMs
    /\ close_flag = FALSE
    /\ check_failed = FALSE
    /\ updates = <<>>
    /\ ui = [g \in group_ids |-> {}]
    /\ last_op = [name |-> "start_up", group_id |-> 0]

\* the durable entries of a first run: none is recorded
NoEntries == [e \in {NotificationIdEntry, NotificationGroupIdEntry} |-> <<>>]

\* the first start of a non-bot session
Start(group_ids, group_count_max, group_size_max) ==
    StartUp(group_ids, FALSE, NoEntries, group_count_max, group_size_max)

\* the cached clocks advance by one step, at most to max_tick steps
AdvanceTime(max_tick) ==
    /\ ~check_failed
    /\ now < max_tick * TickMs
    /\ now' = now + TickMs
    /\ updates' = <<>>
    /\ last_op' = [name |-> "tick", group_id |-> 0]
    /\ UNCHANGED <<groups_, current_notification_id_, current_notification_group_id_, binlog_pmc,
                   is_bot, max_notification_group_count_, max_notification_group_size_,
                   keep_notification_group_size_, timeouts, close_flag, check_failed, ui>>

\* the process starts to close: G()->close_flag() becomes true
SetCloseFlag ==
    /\ ~check_failed
    /\ ~close_flag
    /\ close_flag' = TRUE
    /\ updates' = <<>>
    /\ last_op' = [name |-> "close", group_id |-> 0]
    /\ UNCHANGED <<groups_, current_notification_id_, current_notification_group_id_, binlog_pmc,
                   is_bot, max_notification_group_count_, max_notification_group_size_,
                   keep_notification_group_size_, timeouts, now, check_failed, ui>>

(***************************************************************************)
(* Spec: several groups compete for the window; some notifications have no *)
(* notification object. The local client is online, so each notification   *)
(* is delayed by MIN_NOTIFICATION_DELAY_MS.                                *)
(***************************************************************************)
Init ==
    \E group_count_max \in 1 .. MaxGroupCount, group_size_max \in 1 .. MaxGroupSize :
        Start(1 .. MaxGroupId, group_count_max, group_size_max)

\* the notifications added: with sound, silent, and one that has no notification object
NotificationKinds ==
    {[is_silent |-> FALSE, object |-> TRUE], [is_silent |-> TRUE, object |-> TRUE],
     [is_silent |-> FALSE, object |-> FALSE]}

AddNotification ==
    \E group_id \in 1 .. MaxGroupId, date \in 1 .. MaxDate, kind \in NotificationKinds :
        /\ current_notification_id_ < MaxNotificationId
        /\ TakeNotificationId
        /\ add_notification(group_id, DialogOf(group_id), date, DialogOf(group_id), kind.is_silent,
                            ReturnedNotificationId,
                            NotificationType(TRUE, kind.object), OnlineInfo(TRUE, FALSE, 0, 0))

\* a timeout fires as soon as the clock reaches its time
FlushTimeout ==
    \E group_id \in DOMAIN timeouts :
        on_flush_pending_notifications_timeout_callback(group_id, Max(now, timeouts[group_id]))

Next == AddNotification \/ FlushTimeout

Spec == Init /\ [][Next]_vars

(***************************************************************************)
(* SpecTimer: the pending scheduler. Two groups (the dialog of the second  *)
(* is a secret chat), every online status the delay policy tells apart,    *)
(* a clock that advances on its own, and the close flag.                   *)
(***************************************************************************)
InitTimer == Start(1 .. MaxTimerGroupId, MaxGroupCount, MaxGroupSize)

OnlineInfos ==
    {OnlineInfo(TRUE, FALSE, 0, 0), OnlineInfo(TRUE, TRUE, 0, 0),
     OnlineInfo(FALSE, TRUE, 0, 0), OnlineInfo(FALSE, FALSE, 0, 1)}

AddNotificationTimer ==
    \E group_id \in 1 .. MaxTimerGroupId, date \in 1 .. MaxDate, delayed \in BOOLEAN,
       online_info \in OnlineInfos :
        /\ current_notification_id_ < MaxTimerNotificationId
        /\ TakeNotificationId
        /\ add_notification(group_id, DialogOf(group_id), date, DialogOf(group_id), FALSE,
                            ReturnedNotificationId,
                            NotificationType(delayed, TRUE), online_info)

\* a timeout fires when the clock has reached or passed its time
FlushTimeoutTimer ==
    \E group_id \in DOMAIN timeouts :
        on_flush_pending_notifications_timeout_callback(group_id, now)

TickTimer == AdvanceTime(MaxTimerTick)

NextTimer == AddNotificationTimer \/ FlushTimeoutTimer \/ TickTimer \/ SetCloseFlag

SpecTimer == InitTimer /\ [][NextTimer]_vars

(***************************************************************************)
(* SpecTrim: long runs of notifications in group 1, with dates 1; group 2  *)
(* receives one notification of date 2 and takes the window, which holds   *)
(* one group.                                                              *)
(***************************************************************************)
InitTrim ==
    \E group_size_max \in 1 .. MaxTrimGroupSize : Start(1 .. 2, 1, group_size_max)

AddNotificationTrim ==
    \E group_id \in 1 .. 2 :
        /\ current_notification_id_ < MaxTrimNotificationId
        /\ HasGroup(groups_, group_id) =>
               /\ group_id = 1
               /\ Len(groups_[get_group(groups_, group_id)].pending_notifications) < MaxTrimPending
        /\ TakeNotificationId
        /\ add_notification(group_id, DialogOf(group_id), group_id, DialogOf(group_id), FALSE,
                            ReturnedNotificationId,
                            NotificationType(TRUE, TRUE), OnlineInfo(TRUE, FALSE, 0, 0))

FlushTimeoutTrim ==
    \E group_id \in DOMAIN timeouts :
        on_flush_pending_notifications_timeout_callback(group_id, Max(now, timeouts[group_id]))

NextTrim == AddNotificationTrim \/ FlushTimeoutTrim

SpecTrim == InitTrim /\ [][NextTrim]_vars

(***************************************************************************)
(* SpecSession: a bot or a non-bot session that finds the durable entries  *)
(* empty or close to the largest id; the handlers are called with valid    *)
(* and invalid ids, and the process restarts.                              *)
(***************************************************************************)
\* the durable entries a session may find: none, or counters about to wrap
RecordedEntries ==
    {NoEntries,
     [e \in {NotificationIdEntry, NotificationGroupIdEntry} |->
         IF e = NotificationIdEntry THEN to_string(2147483645) ELSE to_string(2147483646)]}

InitSession ==
    \E bot \in BOOLEAN, recorded \in RecordedEntries :
        StartUp(1 .. MaxSessionGroupId, bot, recorded, MaxGroupCount, MaxGroupSize)

\* the arguments of a call: a non-bot session keeps the contract of
\* add_notification and edit_notification, a bot session is called with anything
SessionGroupIds == IF is_bot THEN 0 .. MaxSessionGroupId ELSE 1 .. MaxSessionGroupId

AddNotificationSession ==
    \E group_id \in SessionGroupIds :
        /\ current_notification_id_ # MaxSessionNotificationId
        /\ TakeNotificationId
        /\ add_notification(group_id, DialogOf(group_id), 1, DialogOf(group_id), FALSE,
                            ReturnedNotificationId, NotificationType(TRUE, TRUE),
                            OnlineInfo(TRUE, FALSE, 0, 0))

EditNotificationSession ==
    \E group_id \in SessionGroupIds, notification_id \in 0 .. MaxSessionNotificationId :
        /\ is_bot \/ (HasGroup(groups_, group_id) /\ IsValid(notification_id))
        /\ edit_notification(group_id, notification_id, NotificationType(TRUE, FALSE))

RemoveNotificationSession ==
    \E group_id \in 0 .. MaxSessionGroupId, notification_id \in 0 .. MaxSessionNotificationId :
        remove_notification(group_id, notification_id)

RemoveNotificationGroupSession ==
    \E group_id \in 0 .. MaxSessionGroupId, max_notification_id \in 0 .. MaxSessionNotificationId :
        remove_notification_group(group_id, max_notification_id)

GetNextNotificationIdSession ==
    /\ current_notification_id_ # MaxSessionNotificationId
    /\ GetNextNotificationId

GetNextNotificationGroupIdSession ==
    /\ current_notification_group_id_ # MaxSessionNotificationGroupId
    /\ GetNextNotificationGroupId

FlushTimeoutSession ==
    \E group_id \in DOMAIN timeouts :
        on_flush_pending_notifications_timeout_callback(group_id, Max(now, timeouts[group_id]))

NextSession ==
    \/ AddNotificationSession
    \/ EditNotificationSession
    \/ RemoveNotificationSession
    \/ RemoveNotificationGroupSession
    \/ GetNextNotificationIdSession
    \/ GetNextNotificationGroupIdSession
    \/ FlushTimeoutSession
    \/ Restart

SpecSession == InitSession /\ [][NextSession]_vars

(***************************************************************************)
(* SpecLive: the close flag is never set, and the timeout set for a group  *)
(* fires at some time: MultiTimeout runs the callback of every timeout     *)
(* whose time has come, and the clock goes on. The window holds one group  *)
(* and shows one notification.                                             *)
(***************************************************************************)
InitLive == Start(1 .. MaxLiveGroupId, 1, 1)

AddNotificationLive ==
    \E group_id \in 1 .. MaxLiveGroupId, date \in 1 .. MaxDate, object \in BOOLEAN :
        /\ current_notification_id_ < MaxLiveNotificationId
        /\ TakeNotificationId
        /\ add_notification(group_id, DialogOf(group_id), date, DialogOf(group_id), FALSE,
                            ReturnedNotificationId, NotificationType(TRUE, object),
                            OnlineInfo(TRUE, FALSE, 0, 0))

\* the timeout of group_id fires
FlushTimeoutLive(group_id) ==
    on_flush_pending_notifications_timeout_callback(group_id, Max(now, timeouts[group_id]))

NextLive == AddNotificationLive \/ \E group_id \in 1 .. MaxLiveGroupId : FlushTimeoutLive(group_id)

\* what the firing of the timeout of group_id does to the set of timeouts: the
\* timeout is taken out of the set and the callback sets none; of the steps of
\* NextLive exactly those of FlushTimeoutLive(group_id) are such steps
TimeoutFires(group_id) ==
    /\ ~check_failed
    /\ timeouts[group_id] # 0
    /\ timeouts' = [timeouts EXCEPT ![group_id] = 0]

SpecLive ==
    /\ InitLive
    /\ [][NextLive]_vars
    /\ \A group_id \in 1 .. MaxLiveGroupId : WF_timeouts(TimeoutFires(group_id))

(***************************************************************************)
(* SpecDate: add_notification takes an int32 date and checks the ids and    *)
(* the type only (lines 155-159); the calls carry dates below 0, 0 and      *)
(* above 0, valid ids and a type, and the timeouts fire.                    *)
(***************************************************************************)
InitDate == Start(1 .. MaxDateGroupId, 1, 1)

DateValues == {-1, 0, 1, 2}

AddNotificationDate ==
    \E group_id \in 1 .. MaxDateGroupId, date \in DateValues :
        /\ current_notification_id_ < MaxDateNotificationId
        /\ TakeNotificationId
        /\ add_notification(group_id, DialogOf(group_id), date, DialogOf(group_id), FALSE,
                            ReturnedNotificationId, NotificationType(TRUE, TRUE),
                            OnlineInfo(TRUE, FALSE, 0, 0))

FlushTimeoutDate ==
    \E group_id \in DOMAIN timeouts :
        on_flush_pending_notifications_timeout_callback(group_id, Max(now, timeouts[group_id]))

NextDate == AddNotificationDate \/ FlushTimeoutDate

SpecDate == InitDate /\ [][NextDate]_vars

(***************************************************************************)
(* SpecDelay: get_notification_delay_ms as add_notification calls it, for  *)
(* an ordinary dialog and a secret chat, every online status the policy    *)
(* tells apart, and dates from the future to 2147483 seconds ago. The      *)
(* clock of the model starts at one second, so a notification that old has *)
(* a negative date.                                                        *)
(***************************************************************************)
InitDelay == Start(1 .. 2, MaxGroupCount, MaxGroupSize)

DelayOnlineInfos == OnlineInfos \cup {OnlineInfo(FALSE, FALSE, 2, 1)}

DelayDates == {-2147483, -1, 0, 1, 2, 3, 4}

AddNotificationDelay ==
    \E group_id \in 1 .. 2, date \in DelayDates, delayed \in BOOLEAN,
       online_info \in DelayOnlineInfos :
        /\ current_notification_id_ < MaxDelayNotificationId
        /\ TakeNotificationId
        /\ add_notification(group_id, DialogOf(group_id), date, DialogOf(group_id), FALSE,
                            ReturnedNotificationId, NotificationType(delayed, TRUE), online_info)

TickDelay == AdvanceTime(MaxDelayTick)

NextDelay == AddNotificationDelay \/ TickDelay

SpecDelay == InitDelay /\ [][NextDelay]_vars

(***************************************************************************)
(* SpecEdit: the caller chooses the notification ids, so that an id may be *)
(* queued again while a notification with that id is kept; edits give a    *)
(* notification a type that cannot be delayed, with or without a           *)
(* notification object. Group 2 receives one notification and takes the    *)
(* window, which holds one group. Notifications are added until the clock  *)
(* has advanced by MaxEditClock milliseconds.                              *)
(***************************************************************************)
InitEdit ==
    \E group_size_max \in 1 .. MaxEditGroupSize : Start(1 .. 2, 1, group_size_max)

\* the number of notifications a group keeps, shown, hidden or pending
GroupLoad(group_id) ==
    IF HasGroup(groups_, group_id)
    THEN Len(groups_[get_group(groups_, group_id)].notifications)
             + Len(groups_[get_group(groups_, group_id)].pending_notifications)
    ELSE 0

AddNotificationEdit ==
    \E group_id \in 1 .. 2, notification_id \in 1 .. MaxEditNotificationId :
        /\ now < TickMs + MaxEditClock
        /\ GroupLoad(group_id) < (IF group_id = 1 THEN MaxEditNotifications ELSE 1)
        /\ group_id = 2 => notification_id = MaxEditNotificationId
        /\ add_notification(group_id, DialogOf(group_id), group_id, DialogOf(group_id), FALSE,
                            notification_id, NotificationType(TRUE, TRUE),
                            OnlineInfo(TRUE, FALSE, 0, 0))
        /\ UNCHANGED <<current_notification_id_, binlog_pmc>>

EditNotificationEdit ==
    \E group_id \in 1 .. 2, notification_id \in 1 .. MaxEditNotificationId, object \in BOOLEAN :
        edit_notification(group_id, notification_id, NotificationType(FALSE, object))

FlushTimeoutEdit ==
    \E group_id \in DOMAIN timeouts :
        on_flush_pending_notifications_timeout_callback(group_id, Max(now, timeouts[group_id]))

NextEdit == AddNotificationEdit \/ EditNotificationEdit \/ FlushTimeoutEdit

SpecEdit == InitEdit /\ [][NextEdit]_vars

(***************************************************************************)
(* SpecSplit: the notifications of group 1 take their settings from its    *)
(* dialog or from another one, with or without sound, with or without a    *)
(* notification object; group 2 competes for the window, which holds one   *)
(* group.                                                                  *)
(***************************************************************************)
InitSplit ==
    \E group_size_max \in 1 .. MaxSplitGroupSize : Start(1 .. 2, 1, group_size_max)

\* the dialog of the notification settings, whether the notification is silent,
\* whether it has a notification object
SplitKinds ==
    {[settings_dialog_id |-> d, is_silent |-> silent, object |-> object] :
        d \in {DialogOf(1), 20}, silent \in BOOLEAN, object \in BOOLEAN}
        \ {[settings_dialog_id |-> 20, is_silent |-> TRUE, object |-> FALSE]}

AddNotificationSplit ==
    \E group_id \in 1 .. 2, kind \in SplitKinds :
        /\ current_notification_id_ < MaxSplitNotificationId
        /\ group_id = 2 =>
               /\ ~HasGroup(groups_, 2)
               /\ kind = [settings_dialog_id |-> DialogOf(1), is_silent |-> FALSE, object |-> TRUE]
        /\ TakeNotificationId
        /\ add_notification(group_id, DialogOf(group_id), group_id, kind.settings_dialog_id,
                            kind.is_silent, ReturnedNotificationId,
                            NotificationType(TRUE, kind.object), OnlineInfo(TRUE, FALSE, 0, 0))

FlushTimeoutSplit ==
    \E group_id \in DOMAIN timeouts :
        on_flush_pending_notifications_timeout_callback(group_id, Max(now, timeouts[group_id]))

NextSplit == AddNotificationSplit \/ FlushTimeoutSplit

SpecSplit == InitSplit /\ [][NextSplit]_vars

(***************************************************************************)
(* Properties of the window and of the updates sent (checked under Spec).  *)
(***************************************************************************)
Flushed == last_op.name = "flush"

\* the step is a flush that passed its CHECKs
FlushStep == last_op'.name = "flush"

\* the flushed group before and after the step
GroupBefore == groups_[get_group(groups_, last_op'.group_id)]
GroupAfter == groups_'[get_group(groups_', last_op'.group_id)]

SetMax(S) == CHOOSE x \in S : \A y \in S : y <= x

SetMin(S) == CHOOSE x \in S : \A y \in S : x <= y

\* the updates sent by flush_pending_notifications(group_key, group, pending_notifications)
BatchUpdates(sent) == SelectSeq(sent, LAMBDA u : u.sender = "flush_pending_notifications")

RECURSIVE SumAdded(_)
SumAdded(sent) ==
    IF sent = <<>> THEN 0 ELSE Len(Head(sent).added_notifications) + SumAdded(Tail(sent))

RECURSIVE SumRemoved(_)
SumRemoved(sent) ==
    IF sent = <<>> THEN 0 ELSE Len(Head(sent).removed_notification_ids) + SumRemoved(Tail(sent))

\* the groups of which the client holds at least one notification
HeldGroups == {g \in DOMAIN ui : ui[g] # {}}

\* the flush made its group enter the window and pushed a flushed group out of it
Evicting == Flushed /\ ~last_op.was_updated /\ last_op.is_updated /\ last_op.last_group_date # 0

\* C1: the client holds notifications of at most max_notification_group_count_
\* groups, after any run of add_notification calls and flushes.
C1_HeldGroupsBounded == Cardinality(HeldGroups) <= max_notification_group_count_

\* C1 witness: a flush has pushed a group out of a full window, and the client
\* holds as many groups as the window allows.
C1_Witness ==
    /\ Evicting
    /\ ui[last_op.last_group_id] = {}
    /\ ui[last_op.group_id] # {}
    /\ Cardinality(HeldGroups) = max_notification_group_count_

\* every id an update withdraws is held by the client when the update arrives
RECURSIVE NoSpuriousRemoval(_, _)
NoSpuriousRemoval(held, sent) ==
    \/ sent = <<>>
    \/ /\ Range(Head(sent).removed_notification_ids) \subseteq held[Head(sent).group_id]
       /\ NoSpuriousRemoval(ApplyUpdate(held, Head(sent)), Tail(sent))

\* C2: no update withdraws a notification id that the client does not hold
\* (one never added for the group, or already withdrawn), also when some
\* notifications have no notification object.
C2_NoSpuriousRemoval == [][NoSpuriousRemoval(ui, updates')]_vars

\* C3: total_count >= notifications.size() for every group of the store.
C3_TotalCountCoversNotifications ==
    \A k \in DOMAIN groups_ : groups_[k].total_count >= Len(groups_[k].notifications)

\* the pending notifications a flush moves into notifications: all of them when
\* the group stays outside the window, else those with a notification object
MovedPending ==
    IF last_op'.is_updated
    THEN SelectSeq(GroupBefore.pending_notifications, LAMBDA p : Renders(p.type))
    ELSE GroupBefore.pending_notifications

DatesOf(pending_notifications) == {pending_notifications[i].date : i \in 1 .. Len(pending_notifications)}

\* C6 as stated: after a flush the date of the new key is the maximum date among
\* the pending notifications the flush moved into notifications.
C6_DateIsMaxOfMoved ==
    [][FlushStep /\ MovedPending # <<>> =>
         get_group(groups_', last_op'.group_id).last_notification_date = SetMax(DatesOf(MovedPending))]_vars

\* C6 amended: after a flush the date of the new key is the maximum of the date of
\* the old key and the dates of all pending notifications the flush consumed,
\* with or without a notification object.
C6_DateIsMaxOfOldAndPending ==
    [][FlushStep =>
         get_group(groups_', last_op'.group_id).last_notification_date =
             SetMax({get_group(groups_, last_op'.group_id).last_notification_date}
                    \cup DatesOf(GroupBefore.pending_notifications))]_vars

\* C6 witness: a flush of a group whose key was newer than all it consumed.
C6_Witness ==
    /\ Flushed
    /\ \A i \in 1 .. Len(last_op.pending_dates) :
           last_op.pending_dates[i] < last_op.group_key.last_notification_date
    /\ \E k \in DOMAIN groups_ :
           /\ k.group_id = last_op.group_id
           /\ k.last_notification_date = last_op.group_key.last_notification_date

\* C7: a flush advances total_count by the number of notifications carried in the
\* added_notifications of its sub-batch updates; these are pending notifications
\* with a notification object, at most max_notification_group_size_ per update.
C7_TotalCountAdvance ==
    [][FlushStep =>
         /\ GroupAfter.total_count - GroupBefore.total_count = SumAdded(BatchUpdates(updates'))
         /\ \A i \in 1 .. Len(updates') :
                updates'[i].sender = "flush_pending_notifications" =>
                    /\ Len(updates'[i].added_notifications) \in 1 .. max_notification_group_size_
                    /\ \A id \in Range(updates'[i].added_notifications) :
                           \E j \in 1 .. Len(GroupBefore.pending_notifications) :
                               /\ GroupBefore.pending_notifications[j].notification_id = id
                               /\ Renders(GroupBefore.pending_notifications[j].type)]_vars

\* C7 witness: a flush that consumed more pending notifications than it sent,
\* and advanced total_count by the number sent.
C7_Witness ==
    /\ Flushed
    /\ last_op.is_updated
    /\ updates # <<>>
    /\ SumAdded(BatchUpdates(updates)) < Len(last_op.pending_dates)
    /\ \E k \in DOMAIN groups_ :
           k.group_id = last_op.group_id /\ groups_[k].total_count = SumAdded(BatchUpdates(updates))

\* added minus removed over the sub-batch updates of a flush, against the change
\* of the shown part of the group
ShownDelta ==
    Min(Len(GroupAfter.notifications), max_notification_group_size_)
        - Min(Min(Len(GroupBefore.notifications), max_notification_group_size_),
              max_notification_group_size_)

\* C8 as stated: for any flush, added minus removed over its sub-batch updates
\* equals min(new_total, max size) - min(old_shown, max size).
C8_DiffOfAnyFlush ==
    [][FlushStep =>
         SumAdded(BatchUpdates(updates')) - SumRemoved(BatchUpdates(updates')) = ShownDelta]_vars

\* C8 amended: the equation holds for every flush whose group is inside the
\* window under its final key; a flush that leaves the group outside the window
\* sends no update at all.
C8_DiffOfVisibleFlush ==
    [][FlushStep =>
         IF last_op'.is_updated
         THEN SumAdded(BatchUpdates(updates')) - SumRemoved(BatchUpdates(updates')) = ShownDelta
         ELSE updates' = <<>>]_vars

\* C8 witness: a flush inside the window whose sub-batch updates withdrew ids.
C8_Witness ==
    /\ Flushed
    /\ last_op.is_updated
    /\ Len(BatchUpdates(updates)) >= 2
    /\ SumRemoved(BatchUpdates(updates)) >= 1

\* the step is a flush that makes its group enter the window while the key at the
\* end of the window belongs to a flushed group
EvictingStep ==
    /\ FlushStep
    /\ ~last_op'.was_updated
    /\ last_op'.is_updated
    /\ last_op'.last_group_date # 0

\* the last Min(Len(seq), n) elements of seq
Suffix(seq, n) == [i \in 1 .. Min(Len(seq), n) |-> seq[Len(seq) - Min(Len(seq), n) + i]]

\* the ids of the group pushed out of the window that the window showed
EvictedIds ==
    LET evicted == groups_[get_group(groups_, last_op'.last_group_id)].notifications
        shown == Suffix(evicted, max_notification_group_size_)
    IN [i \in 1 .. Len(shown) |-> shown[i].notification_id]

\* the ids of the prior notifications of the flushed group that seed the client
SeedIds ==
    LET shown == SelectSeq(Suffix(GroupBefore.notifications, max_notification_group_size_),
                           LAMBDA n : Renders(n.type))
    IN [i \in 1 .. Len(shown) |-> shown[i].notification_id]

\* sent is: a removal update for the evicted group (if has_remove), then an
\* add-group update for the flushed group (if has_seed), then sub-batch updates
\* of the flushed group only
EvictionUpdates(sent, has_remove, has_seed) ==
    LET r == IF has_remove THEN 1 ELSE 0
        a == IF has_seed THEN 1 ELSE 0
    IN /\ Len(sent) >= r + a
       /\ has_remove =>
              /\ sent[1].sender = "send_remove_group_update"
              /\ sent[1].group_id = last_op'.last_group_id
              /\ sent[1].added_notifications = <<>>
              /\ sent[1].removed_notification_ids = EvictedIds
       /\ has_seed =>
              /\ sent[r + 1].sender = "send_add_group_update"
              /\ sent[r + 1].group_id = last_op'.group_id
              /\ sent[r + 1].added_notifications = SeedIds
              /\ sent[r + 1].removed_notification_ids = <<>>
       /\ \A i \in (r + a + 1) .. Len(sent) :
              /\ sent[i].sender = "flush_pending_notifications"
              /\ sent[i].group_id = last_op'.group_id

\* C10 as stated: such a flush sends one removal update for the group pushed out
\* of the window, then the add-group update unless the flushed group has no prior
\* notifications, then the sub-batch updates, and nothing else.
C10_EvictionAlwaysRemoves ==
    [][EvictingStep => EvictionUpdates(updates', TRUE, GroupBefore.notifications # <<>>)]_vars

\* C10 amended: the removal update is sent if the group pushed out holds at least
\* one notification, the add-group update if at least one of the last
\* max_notification_group_size_ prior notifications of the flushed group has a
\* notification object; the order and the subjects are as stated.
C10_EvictionUpdates ==
    [][EvictingStep => EvictionUpdates(updates', EvictedIds # <<>>, SeedIds # <<>>)]_vars

\* C10 witness: a flush pushed a group out and sent the removal update, the
\* add-group update and a sub-batch update, in this order.
C10_Witness ==
    /\ Evicting
    /\ Len(updates) = 3
    /\ updates[1].sender = "send_remove_group_update"
    /\ updates[1].group_id = last_op.last_group_id
    /\ updates[2].sender = "send_add_group_update"
    /\ updates[3].sender = "flush_pending_notifications"
    /\ updates[3].group_id = last_op.group_id

\* the place of key in the iteration order of the store, counted from 1
RankOf(store, key) == Cardinality({k \in DOMAIN store : KeyLess(k, key)}) + 1

\* C19: in a flush, with the flushed group taken out of the store, the final key
\* of the group is less than get_last_updated_group_key() if and only if it is
\* among the first max_notification_group_count_ keys of the store once the
\* group is inserted again; with fewer than max_notification_group_count_ other
\* groups the function returns the empty key, and the final key is less than it.
C19_LastUpdatedKeyIsWindowEdge ==
    [][FlushStep =>
          LET others == (DOMAIN groups_) \ {last_op'.group_key}
              final_group_key == last_op'.final_group_key
          IN /\ final_group_key \in DOMAIN groups_'
             /\ last_op'.is_updated
                    <=> RankOf(groups_', final_group_key) <= max_notification_group_count_
             /\ Cardinality(others) < max_notification_group_count_
                    => /\ last_op'.last_group_id = EmptyKey.group_id
                       /\ last_op'.last_group_date = EmptyKey.last_notification_date
                       /\ last_op'.is_updated
             /\ Cardinality(others) >= max_notification_group_count_
                    => \E k \in others :
                          /\ k.group_id = last_op'.last_group_id
                          /\ k.last_notification_date = last_op'.last_group_date
                          /\ RankOf(groups_', k) - (IF KeyLess(final_group_key, k) THEN 1 ELSE 0)
                                 = max_notification_group_count_]_vars

\* C19 witness: a flush found max_notification_group_count_ other groups in the
\* store and a final key that is not less than the key the function returned;
\* the group is inserted after the first max_notification_group_count_ keys.
C19_Witness ==
    /\ Flushed
    /\ ~last_op.is_updated
    /\ last_op.last_group_date # 0
    /\ last_op.final_group_key \in DOMAIN groups_
    /\ RankOf(groups_, last_op.final_group_key) = max_notification_group_count_ + 1

\* C20: in every state where a flush can take place, a group that is visible
\* under its key (date not 0, key less than the last updated key) is visible
\* under its final key, so that the CHECK(!was_updated) of the not-visible path
\* holds; and a flush that finds the group not visible sends no update and
\* leaves what the client holds as it was.
C20_VisibleStaysVisible ==
    /\ [](\A k \in DOMAIN groups_ :
             groups_[k].pending_notifications # <<>> =>
                 LET r == FlushGroup(groups_, k.group_id)
                 IN /\ r.was_updated => r.is_updated
                    /\ ~r.is_updated => ~r.was_updated /\ r.updates = <<>>)
    /\ [][FlushStep /\ ~last_op'.is_updated =>
             /\ ~last_op'.was_updated
             /\ updates' = <<>>
             /\ ui' = ui]_vars

\* C20 witness: a flush of a group that was visible, with a pending notification
\* older than the date of its key, and with as many other groups in the store as
\* the window holds; the group is still visible.
C20_Witness ==
    /\ Flushed
    /\ last_op.was_updated
    /\ last_op.is_updated
    /\ last_op.last_group_date # 0
    /\ \E i \in 1 .. Len(last_op.pending_dates) :
           last_op.pending_dates[i] < last_op.group_key.last_notification_date

(***************************************************************************)
(* Properties of the split into runs (checked under SpecSplit).            *)
(***************************************************************************)
SameSettings(p, q) ==
    p.settings_dialog_id = q.settings_dialog_id /\ p.is_silent = q.is_silent

\* the indices at which a maximal run with equal settings begins
RunStarts(pending_notifications) ==
    {i \in 1 .. Len(pending_notifications) :
        i = 1 \/ ~SameSettings(pending_notifications[i], pending_notifications[i - 1])}

\* the indices of the run that begins at start
RunFrom(pending_notifications, start) ==
    {i \in start .. Len(pending_notifications) :
        \A j \in (start + 1) .. i : j \notin RunStarts(pending_notifications)}

\* the ids of the notifications of that run that have a notification object
RenderedOfRun(pending_notifications, start) ==
    {pending_notifications[i].notification_id :
        i \in {j \in RunFrom(pending_notifications, start) : Renders(pending_notifications[j].type)}}

RECURSIVE Ascending(_)
Ascending(S) ==
    IF S = {} THEN <<>> ELSE <<SetMin(S)>> \o Ascending(S \ {SetMin(S)})

\* the runs with at least one rendered notification, by their first index, in order
RenderedRuns(pending_notifications) ==
    Ascending({start \in RunStarts(pending_notifications) :
                  RenderedOfRun(pending_notifications, start) # {}})

\* C11: a flush of a group inside the window sends exactly one sub-batch update
\* per maximal run of pending notifications with equal (settings_dialog_id,
\* is_silent) that has a rendered notification, in the order of the runs; the
\* update carries the settings of its run and notifications of its run only.
C11_OneUpdatePerRun ==
    [][FlushStep /\ last_op'.is_updated =>
         LET pending_notifications == GroupBefore.pending_notifications
             runs == RenderedRuns(pending_notifications)
             sent == BatchUpdates(updates')
         IN /\ Len(sent) = Len(runs)
            /\ \A k \in 1 .. Len(runs) :
                   /\ sent[k].group_id = last_op'.group_id
                   /\ sent[k].settings_dialog_id = pending_notifications[runs[k]].settings_dialog_id
                   /\ sent[k].is_silent = pending_notifications[runs[k]].is_silent
                   /\ sent[k].added_notifications # <<>>
                   /\ Range(sent[k].added_notifications)
                          \subseteq RenderedOfRun(pending_notifications, runs[k])]_vars

\* C11 witness: a flush inside the window consumed four pending notifications
\* and sent two sub-batch updates, the settings of the first from dialog 11, of
\* the second from dialog 20, with fewer notifications than it consumed.
C11_Witness ==
    /\ Flushed
    /\ last_op.is_updated
    /\ Len(last_op.pending_dates) = 4
    /\ Len(BatchUpdates(updates)) = 2
    /\ BatchUpdates(updates)[1].settings_dialog_id = DialogOf(1)
    /\ BatchUpdates(updates)[2].settings_dialog_id = 20
    /\ SumAdded(BatchUpdates(updates)) < 4

(***************************************************************************)
(* Progress of the pending scheduler (checked under SpecLive).             *)
(***************************************************************************)
\* the notification is in the pending queue of the group
IsPending(group_id, notification_id) ==
    \E k \in DOMAIN groups_ :
        /\ k.group_id = group_id
        /\ \E i \in 1 .. Len(groups_[k].pending_notifications) :
               groups_[k].pending_notifications[i].notification_id = notification_id

\* the group is in the store with nothing pending
NothingPending(group_id) ==
    \E k \in DOMAIN groups_ :
        /\ k.group_id = group_id
        /\ groups_[k].pending_notifications = <<>>
        /\ groups_[k].pending_notifications_flush_time = 0

\* C18: while the close flag is never set and every timeout that is set fires,
\* every notification accepted by add_notification is at some time removed from
\* the pending queue of its group by a flush, which leaves the queue empty and
\* the flush time 0; and no group ever has pending notifications without a
\* timeout set for its group id.
C18_PendingIsFlushed ==
    /\ [](\A k \in DOMAIN groups_ :
             groups_[k].pending_notifications # <<>> => timeouts[k.group_id] # 0)
    /\ \A group_id \in 1 .. MaxLiveGroupId, notification_id \in 1 .. MaxLiveNotificationId :
           IsPending(group_id, notification_id)
               ~> (~IsPending(group_id, notification_id) /\ NothingPending(group_id))

\* C18 witness: a flush has taken two accepted notifications out of the pending
\* queue of its group; the queue is empty, the flush time 0, no timeout is set.
C18_Witness ==
    /\ Flushed
    /\ Len(last_op.pending_dates) = 2
    /\ NothingPending(last_op.group_id)
    /\ timeouts[last_op.group_id] = 0
    /\ ~close_flag

(***************************************************************************)
(* Properties of the CHECKs of a flush (checked under SpecDate).           *)
(***************************************************************************)
\* the timeout of the group is set and its callback runs the flush
CanFlush(group_id) == ~check_failed /\ ~close_flag /\ timeouts[group_id] # 0

\* C21: after add_notification calls with valid ids, a type and dates of any
\* sign, and timeouts that fire, the CHECKs at the start of the flush hold for
\* every timeout that is set: the group is in the store (line 313), it has
\* pending notifications (line 318), and the date of its final key is not 0
\* (line 325).
C21_FlushChecksHold ==
    \A group_id \in DOMAIN timeouts :
        CanFlush(group_id) =>
            /\ HasGroup(groups_, group_id)
            /\ LET group_key == get_group(groups_, group_id)
                   pending_notifications == groups_[group_key].pending_notifications
               IN /\ pending_notifications # <<>>
                  /\ FinalGroupKey(group_key, pending_notifications).last_notification_date # 0

(***************************************************************************)
(* Properties of the delay policy (checked under SpecDelay).               *)
(***************************************************************************)
\* the base delay by the ordered rules of the specification, in milliseconds;
\* server_time is in milliseconds, the was_online times in seconds
SpecBaseDelayMs(dialog_id, type, online_info, server_time) ==
    CASE IsSecretChat(dialog_id) -> 0
      [] ~IsSecretChat(dialog_id) /\ ~type.can_be_delayed -> 0
      [] OTHER ->
           IF ~online_info.is_online_local /\ online_info.is_online_remote THEN notification_cloud_delay_ms_
           ELSE IF /\ ~online_info.is_online_local
                   /\ online_info.was_online_remote * 1000 > online_info.was_online_local * 1000
                   /\ online_info.was_online_remote * 1000 > server_time - online_cloud_timeout_ms_
           THEN notification_cloud_delay_ms_
           ELSE IF online_info.is_online_remote THEN notification_default_delay_ms_
           ELSE 0

\* max(base - passed_ms, MIN_NOTIFICATION_DELAY_MS) with
\* passed_ms = max(0, (now - date - 1) * 1000): the floor as soon as passed_ms
\* reaches base - MIN_NOTIFICATION_DELAY_MS
SpecDelayMs(base, date, server_time) ==
    IF date * 1000 <= (server_time - 1000) - (base - MIN_NOTIFICATION_DELAY_MS)
    THEN MIN_NOTIFICATION_DELAY_MS
    ELSE IF date * 1000 >= server_time - 1000 THEN Max(base, MIN_NOTIFICATION_DELAY_MS)
    ELSE base - ((server_time - 1000) - date * 1000)

\* the notification the step has queued, and the key of its group
QueuedKey == get_group(groups_', last_op'.group_id)
Queued ==
    groups_'[QueuedKey].pending_notifications[Len(groups_'[QueuedKey].pending_notifications)]

\* C16: for every dialog kind, delayability, online status, date and server
\* time, get_notification_delay_ms returns max(base - passed_ms,
\* MIN_NOTIFICATION_DELAY_MS) with base by the ordered rules and
\* passed_ms = max(0, (now - date - 1) * 1000); the result is never below
\* MIN_NOTIFICATION_DELAY_MS and equals it for secret chats and for
\* notifications that cannot be delayed.
C16_DelayFormula ==
    [][last_op'.name = "add_notification" /\ ~is_bot =>
         /\ last_op'.delay_ms =
                SpecDelayMs(SpecBaseDelayMs(QueuedKey.dialog_id, Queued.type,
                                            last_op'.online_info, now),
                            Queued.date, now)
         /\ last_op'.delay_ms >= MIN_NOTIFICATION_DELAY_MS
         /\ IsSecretChat(QueuedKey.dialog_id) \/ ~Queued.type.can_be_delayed =>
                last_op'.delay_ms = MIN_NOTIFICATION_DELAY_MS]_vars

(***************************************************************************)
(* Properties of the edit path (checked under SpecEdit).                   *)
(***************************************************************************)
\* the step is a call of edit_notification, in a non-bot session, for a group of
\* the store
EditStep ==
    /\ last_op'.name = "edit_notification"
    /\ ~is_bot
    /\ HasGroup(groups_, last_op'.group_id)

\* the indices of the entries of seq with that notification id
Copies(seq, notification_id) ==
    {i \in 1 .. Len(seq) : seq[i].notification_id = notification_id}

\* some notification of the group with that id is among the last
\* max_notification_group_size_ ones
ShownMatch(notifications, notification_id) ==
    \E i \in Copies(notifications, notification_id) :
        i > Len(notifications) - max_notification_group_size_

\* C14: after edit_notification on a group that holds the notification id once in
\* notifications and once in pending_notifications, both copies carry the new
\* type, whether or not the copy in notifications is among the last
\* max_notification_group_size_ ones.
C14_EditUpdatesBothCopies ==
    [][/\ EditStep
       /\ Cardinality(Copies(GroupBefore.notifications, last_op'.notification_id)) = 1
       /\ Cardinality(Copies(GroupBefore.pending_notifications, last_op'.notification_id)) = 1
       => /\ last_op'.outcome = "done"
          /\ \A i \in Copies(GroupAfter.notifications, last_op'.notification_id) :
                 GroupAfter.notifications[i].type = last_op'.type
          /\ \A i \in Copies(GroupAfter.pending_notifications, last_op'.notification_id) :
                 GroupAfter.pending_notifications[i].type = last_op'.type]_vars

OutsideWindow(group_id) ==
    RankOf(groups_, get_group(groups_, group_id)) > max_notification_group_count_

\* C22: a call of edit_notification sends an updateNotification only for a
\* notification the client holds: the group is among the first
\* max_notification_group_count_ groups of the store, and the client has received
\* the notification id in an update of the group and no removal of it since.
C22_EditUpdatesOnlyHeld ==
    [][EditStep /\ updates' # <<>> =>
         /\ ~OutsideWindow(last_op'.group_id)
         /\ last_op'.notification_id \in ui[last_op'.group_id]]_vars

(***************************************************************************)
(* Properties of sessions, of the remove path and of the id allocators     *)
(* (checked under SpecSession).                                            *)
(***************************************************************************)
\* the state of the engine: everything but the clock and the record of the last call
EngineState ==
    <<groups_, current_notification_id_, current_notification_group_id_, binlog_pmc,
      max_notification_group_count_, max_notification_group_size_,
      keep_notification_group_size_, timeouts, check_failed, ui>>

MutatingCall(name) ==
    name \in {"add_notification", "edit_notification", "remove_notification",
              "remove_notification_group"}

RemoveCall(name) == name \in {"remove_notification", "remove_notification_group"}

\* C12 as stated: in a bot session add_notification, edit_notification,
\* remove_notification and remove_notification_group change no engine state, set
\* no timer and send nothing, and both remove operations resolve their promise
\* with the unit value whatever the arguments, invalid ids included.
C12_BotAlwaysSucceeds ==
    [][is_bot /\ MutatingCall(last_op'.name) =>
         /\ UNCHANGED EngineState
         /\ updates' = <<>>
         /\ RemoveCall(last_op'.name) => last_op'.promise = <<SetValue>>]_vars

\* C12 amended: in a bot session the four operations change no engine state, set
\* no timer and send nothing; remove_notification resolves its promise with the
\* unit value if the notification id is valid and with error 400 if not;
\* remove_notification_group with the unit value if the group id and the
\* notification id are valid and with error 400 if not.
C12_BotNoOp ==
    [][is_bot /\ MutatingCall(last_op'.name) =>
         /\ UNCHANGED EngineState
         /\ updates' = <<>>
         /\ last_op'.name = "remove_notification" =>
                last_op'.promise =
                    IF IsValid(last_op'.notification_id) THEN <<SetValue>> ELSE <<SetError(400)>>
         /\ last_op'.name = "remove_notification_group" =>
                last_op'.promise =
                    IF IsValid(last_op'.group_id) /\ IsValid(last_op'.notification_id)
                    THEN <<SetValue>> ELSE <<SetError(400)>>]_vars

\* C12 witness: a bot session has resolved a remove_notification_group with valid
\* ids with the unit value; no group exists and no timer is set.
C12_Witness ==
    /\ is_bot
    /\ last_op.name = "remove_notification_group"
    /\ IsValid(last_op.group_id) /\ IsValid(last_op.notification_id)
    /\ last_op.promise = <<SetValue>>
    /\ DOMAIN groups_ = {}
    /\ \A g \in DOMAIN timeouts : timeouts[g] = 0

\* C13: in a non-bot session remove_notification and remove_notification_group
\* resolve their promise exactly once, with error 400 if the group id or the
\* notification id is invalid and with the unit value otherwise, and leave the
\* group store as it is.
C13_RemoveValidatesIds ==
    [][~is_bot /\ RemoveCall(last_op'.name) =>
         /\ Len(last_op'.promise) = 1
         /\ last_op'.promise[1] =
                IF IsValid(last_op'.group_id) /\ IsValid(last_op'.notification_id)
                THEN SetValue ELSE SetError(400)
         /\ UNCHANGED groups_]_vars

\* C17: in a non-bot session each allocator returns (c mod (2^31 - 1)) + 1 for the
\* value c of its counter, a value of 1 .. 2^31 - 1; the counter and its own
\* durable entry hold the returned value and the other entry is untouched; a
\* restart reloads both counters with the values they had. In a bot session the
\* allocators return 0 and write nothing.
C17_IdAllocators ==
    [][/\ last_op'.name = "get_next_notification_id" =>
             IF is_bot
             THEN last_op'.returned = 0 /\ UNCHANGED EngineState
             ELSE /\ last_op'.returned = (current_notification_id_ % 2147483647) + 1
                  /\ last_op'.returned >= 1 /\ last_op'.returned <= 2147483647
                  /\ current_notification_id_' = last_op'.returned
                  /\ to_integer(binlog_pmc'[NotificationIdEntry]) = last_op'.returned
                  /\ binlog_pmc'[NotificationGroupIdEntry] = binlog_pmc[NotificationGroupIdEntry]
       /\ last_op'.name = "get_next_notification_group_id" =>
             IF is_bot
             THEN last_op'.returned = 0 /\ UNCHANGED EngineState
             ELSE /\ last_op'.returned = (current_notification_group_id_ % 2147483647) + 1
                  /\ last_op'.returned >= 1 /\ last_op'.returned <= 2147483647
                  /\ current_notification_group_id_' = last_op'.returned
                  /\ to_integer(binlog_pmc'[NotificationGroupIdEntry]) = last_op'.returned
                  /\ binlog_pmc'[NotificationIdEntry] = binlog_pmc[NotificationIdEntry]
       /\ last_op'.name = "start_up" =>
             IF is_bot
             THEN current_notification_id_' = 0 /\ current_notification_group_id_' = 0
             ELSE UNCHANGED <<current_notification_id_, current_notification_group_id_>>]_vars

\* C17 witness: the notification id counter has wrapped from 2^31 - 1 to 1 while
\* the group id counter stands at 2^31 - 1.
C17_Witness ==
    /\ ~is_bot
    /\ last_op.name = "get_next_notification_id"
    /\ last_op.returned = 1
    /\ binlog_pmc[NotificationIdEntry] = <<1>>
    /\ current_notification_group_id_ = 2147483647

(***************************************************************************)
(* Properties of the pending scheduler (checked under SpecTimer).          *)
(***************************************************************************)
\* C4: for every group of the store, pending_notifications_flush_time is 0 if and
\* only if pending_notifications is empty.
C4_FlushTimeIffPending ==
    \A k \in DOMAIN groups_ :
        (groups_[k].pending_notifications_flush_time = 0) <=> (groups_[k].pending_notifications = <<>>)

\* C4 witness: a flush has emptied one group while another still has pending
\* notifications and a flush time.
C4_Witness ==
    /\ Flushed
    /\ \E k \in DOMAIN groups_ :
           /\ k.group_id = last_op.group_id
           /\ groups_[k].pending_notifications = <<>>
           /\ groups_[k].pending_notifications_flush_time = 0
    /\ \E k \in DOMAIN groups_ :
           /\ groups_[k].pending_notifications # <<>>
           /\ groups_[k].pending_notifications_flush_time > 0

\* C5: for every group with pending notifications, pending_notifications_flush_time
\* is the minimum of the flush times computed for the notifications queued since
\* the last flush, and the timeout set for the group is at that time; a timeout
\* is missing only after it fired while the close flag was set.
C5_TimeoutIsEarliestFlushTime ==
    \A k \in DOMAIN groups_ :
        groups_[k].pending_notifications # <<>> =>
            /\ groups_[k].pending_notifications_flush_time =
                   SetMin({groups_[k].pending_notifications[i].flush_at :
                              i \in 1 .. Len(groups_[k].pending_notifications)})
            /\ \/ timeouts[k.group_id] = groups_[k].pending_notifications_flush_time
               \/ close_flag /\ timeouts[k.group_id] = 0

\* C5 witness: a notification with an earlier flush time has replaced the timeout
\* of the first one, and a later one has not postponed it.
C5_Witness ==
    \E k \in DOMAIN groups_ :
        /\ Len(groups_[k].pending_notifications) = 3
        /\ groups_[k].pending_notifications[2].flush_at < groups_[k].pending_notifications[1].flush_at
        /\ groups_[k].pending_notifications[2].flush_at < groups_[k].pending_notifications[3].flush_at
        /\ timeouts[k.group_id] = groups_[k].pending_notifications[2].flush_at

(***************************************************************************)
(* Properties of the trim step (checked under SpecTrim).                   *)
(***************************************************************************)
\* the notifications of the flushed group before the trim step: those it had and
\* those the flush moved into it
BeforeTrim ==
    GroupBefore.notifications \o
        [i \in 1 .. Len(MovedPending) |->
            [notification_id |-> MovedPending[i].notification_id, type |-> MovedPending[i].type]]

\* keep_size as the specification defines it, with EXTRA_GROUP_SIZE = 10
SpecKeepSize == max_notification_group_size_ + Max(5, Min(max_notification_group_size_, 10))

\* C9: after every flush the group has at most keep_size + 10 notifications; if
\* it had more before the trim step, exactly the newest keep_size remain, in
\* their order; else the trim step removes nothing.
C9_Trim ==
    [][FlushStep =>
         /\ Len(GroupAfter.notifications) <= SpecKeepSize + 10
         /\ GroupAfter.notifications =
                IF Len(BeforeTrim) > SpecKeepSize + 10
                THEN Suffix(BeforeTrim, SpecKeepSize)
                ELSE BeforeTrim]_vars

\* C9 witness: a flush has cut a group of more than keep_size + 10 notifications
\* down to the newest keep_size.
C9_Witness ==
    /\ Flushed
    /\ \E k \in DOMAIN groups_ :
           /\ k.group_id = last_op.group_id
           /\ Len(groups_[k].notifications) = keep_notification_group_size_
           /\ groups_[k].notifications[1].notification_id > EXTRA_GROUP_SIZE
           /\ \A i \in 1 .. (Len(groups_[k].notifications) - 1) :
                  groups_[k].notifications[i].notification_id
                      < groups_[k].notifications[i + 1].notification_id

====
